---- MODULE Spec2Model ----
(***************************************************************************)
(* Transfer coordination of dappServer: the durable transfer_status table  *)
(* (database/db.go) and the in-memory registry of pending requests with    *)
(* its reaper (server/transfer_manager.go).                                *)
(*                                                                         *)
(* Time is counted in minutes.                                             *)
(***************************************************************************)
EXTENDS Integers, Sequences, FiniteSets, TLC

\* Request identifiers (request_id / transactionID) and block identifiers.
Txns == {"T1", "T2"}
Blocks == {"B1", "B2"}
\* The block a transfer request may be submitted for: T1 and T2 for the same
\* block or for different blocks (block identifiers are interchangeable).
BlocksOf(t) == IF t = "T1" THEN {"B1"} ELSE Blocks

\* CallbackResponse values: one successful and one failed outcome.
RespSuccess == [Success |-> TRUE, Message |-> "confirmed", Error |-> ""]
RespFailure == [Success |-> FALSE, Message |-> "rejected", Error |-> "E1"]
Responses == {RespSuccess, RespFailure}

\* time.NewTicker(2 * time.Minute)
ReapPeriod == 2
\* now.Sub(req.CreatedAt) > 10*time.Minute
TTL == 10
\* make(chan CallbackResponse, 1)
ChanCap == 1
\* The clock saturates at MaxTime.
MaxTime == 24
\* The clock is observed every TTL + ReapPeriod minutes: the first ticker
\* period at which a request registered at the previous observation is stale.
ClockStep == TTL + ReapPeriod
\* The last time at which a request is still registered, so that every
\* pending request is stale once the clock has reached MaxTime.
LastRegister == MaxTime - ClockStep

MsgInitiated == "Transfer initiated, waiting for blockchain confirmation"
MsgTimeout == "Transfer confirmation timed out (blockchain may still be processing)"

Free == "free"
CallbackProc == "callback"

VARIABLES
    pendingByBlockId, \* TransferManager.pendingByBlockId: blockId -> PendingRequest
    pendingMu,        \* holder of TransferManager.pendingMu, or Free
    chans,            \* the channels made so far, by the request they were made for
    rows,             \* table transfer_status: request_id -> row
    now,              \* time.Now(), in minutes
    tickerC,          \* the reaper's ticker has fired and was not yet served
    hs,               \* per transfer request: the handler awaiting the result
    cb,               \* the callback being processed by SendCallbackResponse
    panicked          \* a Go runtime panic occurred (close of / send on a closed channel)

vars == <<pendingByBlockId, pendingMu, chans, rows, now, tickerC, hs, cb, panicked>>

----------------------------------------------------------------------------
\* Go maps

Put(m, k, v) == [x \in (DOMAIN m) \cup {k} |-> IF x = k THEN v ELSE m[x]]
Delete(m, k) == [x \in (DOMAIN m) \ {k} |-> m[x]]
EmptyMap == [x \in {} |-> 0]

----------------------------------------------------------------------------
\* Go channels of CallbackResponse.  signals counts the operations that
\* sent to or closed the channel (history, not program state).

NewChan == [buf |-> <<>>, closed |-> FALSE, signals |-> 0]

\* close(c): closing a closed channel panics.
ClosePanics(c) == c.closed
CloseChan(c) == [c EXCEPT !.closed = TRUE, !.signals = @ + 1]

\* select { case c <- v: ... default: ... }: sending on a closed channel
\* panics; the send is taken when the buffer has room, else the default.
SendPanics(c) == c.closed
\* The channel made without a buffer, make(chan CallbackResponse): with no
\* receiver ready at that moment the select takes the default branch.
CanSendUnbuffered(c) == Len(c.buf) < ChanCap - 1
CanSend(c) == Len(c.buf) < ChanCap
\* c <- v; close(c) of the send branch
SendAndClose(c, v) == [c EXCEPT !.buf = Append(@, v), !.closed = TRUE, !.signals = @ + 1]

----------------------------------------------------------------------------
\* database/db.go

\* INSERT OR REPLACE INTO transfer_status: a row with the same request_id is
\* replaced.
CreateTransferStatusReplace(rws, status, storeOk) ==
    IF ~storeOk
    THEN [rows |-> rws, err |-> "failed to create transfer status"]
    ELSE [rows |-> Put(rws, status.RequestID,
                       [block_id |-> status.BlockId,
                        status |-> status.Status,
                        message |-> status.Message,
                        error_details |-> status.ErrorDetails]),
          err |-> ""]

\* INSERT INTO transfer_status: request_id is the PRIMARY KEY; block_id is
\* only indexed, not unique.
CreateTransferStatus(rws, status, storeOk) ==
    IF ~storeOk \/ status.RequestID \in DOMAIN rws
    THEN [rows |-> rws, err |-> "failed to create transfer status"]
    ELSE [rows |-> Put(rws, status.RequestID,
                       [block_id |-> status.BlockId,
                        status |-> status.Status,
                        message |-> status.Message,
                        error_details |-> status.ErrorDetails]),
          err |-> ""]

\* SELECT without the WHERE clause: any row may come first.
GetTransferStatusAnyBlock(rws, blockId) == DOMAIN rws

\* SELECT ... WHERE block_id = ?: the request ids QueryRow may return (the
\* query has no ORDER BY, so any matching row may come first).
GetTransferStatusByBlockId(rws, blockId) ==
    {t \in DOMAIN rws : rws[t].block_id = blockId}

\* UPDATE that writes error_details in every case, empty when not supplied.
UpdateTransferStatusClearing(rws, requestID, updates, storeOk) ==
    IF ~storeOk THEN [rows |-> rws, err |-> "failed to update transfer status"]
    ELSE IF requestID \notin DOMAIN rws THEN [rows |-> rws, err |-> "transfer not found"]
    ELSE LET old == rws[requestID]
             new == [block_id |-> IF "block_id" \in DOMAIN updates
                                  THEN updates["block_id"] ELSE old.block_id,
                     status |-> IF "status" \in DOMAIN updates
                                THEN updates["status"] ELSE old.status,
                     message |-> IF "message" \in DOMAIN updates
                                 THEN updates["message"] ELSE old.message,
                     error_details |-> IF "error_details" \in DOMAIN updates
                                       THEN updates["error_details"] ELSE ""]
         IN [rows |-> [rws EXCEPT ![requestID] = new], err |-> ""]

\* UPDATE transfer_status SET updated_at = ?, ... WHERE request_id = ?
\* (updated_at is written by every update and read by no operation; the
\* timestamps of a row are not part of the state.)
UpdateTransferStatus(rws, requestID, updates, storeOk) ==
    IF ~storeOk THEN [rows |-> rws, err |-> "failed to update transfer status"]
    ELSE IF requestID \notin DOMAIN rws THEN [rows |-> rws, err |-> "transfer not found"]
    ELSE LET old == rws[requestID]
             new == [block_id |-> IF "block_id" \in DOMAIN updates
                                  THEN updates["block_id"] ELSE old.block_id,
                     status |-> IF "status" \in DOMAIN updates
                                THEN updates["status"] ELSE old.status,
                     message |-> IF "message" \in DOMAIN updates
                                 THEN updates["message"] ELSE old.message,
                     error_details |-> IF "error_details" \in DOMAIN updates
                                       THEN updates["error_details"] ELSE old.error_details]
         IN [rows |-> [rws EXCEPT ![requestID] = new], err |-> ""]

----------------------------------------------------------------------------
\* server/transfer_manager.go

\* The updates map without the error_details of a failed outcome.
CallbackUpdatesNoDetails(response) ==
    [k \in {"message", "status"} |->
        IF k = "message" THEN response.Message
        ELSE IF response.Success THEN "success" ELSE "failed"]

\* The updates map built from a callback response.
CallbackUpdates(response) ==
    IF response.Success
    THEN [k \in {"message", "status"} |->
            IF k = "message" THEN response.Message ELSE "success"]
    ELSE [k \in {"message", "status", "error_details"} |->
            IF k = "message" THEN response.Message
            ELSE IF k = "status" THEN "failed" ELSE response.Error]

\* The updates map of MarkTimeout.
TimeoutUpdates ==
    [k \in {"status", "message"} |-> IF k = "status" THEN "timeout" ELSE MsgTimeout]

IdleHandler == [pc |-> "idle", block |-> ""]
\* cb.found: the lookup found a pending request; cb.err: the error of the
\* callback's last store call; cb.ret: the value SendCallbackResponse returns.
IdleCallback == [pc |-> "idle", block |-> "", resp |-> RespSuccess, txn |-> "",
                 found |-> FALSE, err |-> "", ret |-> FALSE]

Init ==
    /\ pendingByBlockId = EmptyMap
    /\ pendingMu = Free
    /\ chans = EmptyMap
    /\ rows = EmptyMap
    /\ now = 0
    /\ tickerC = FALSE
    /\ hs = [t \in Txns |-> IdleHandler]
    /\ cb = IdleCallback
    /\ panicked = FALSE

\* CreateTransfer(transactionID, blockId, ...): the handler of a transfer
\* request writes the pending row; on error the request is abandoned.
CreateTransfer(t, b, storeOk) ==
    /\ ~panicked
    /\ hs[t].pc = "idle"
    /\ LET res == CreateTransferStatus(rows,
                      [RequestID |-> t, BlockId |-> b, Status |-> "pending",
                       Message |-> MsgInitiated, ErrorDetails |-> ""], storeOk)
       IN /\ rows' = res.rows
          /\ hs' = [hs EXCEPT ![t] = IF res.err = ""
                                     THEN [IdleHandler EXCEPT !.pc = "created", !.block = b]
                                     ELSE IdleHandler]
    /\ UNCHANGED <<pendingByBlockId, pendingMu, chans, now, tickerC, cb, panicked>>

\* RegisterPendingRequest(transactionID, blockId), under pendingMu.  A
\* request registers once (its row is created once), so the channel made
\* for it is identified by the request.
RegisterPendingRequest(t) ==
    /\ ~panicked
    /\ hs[t].pc = "created"
    /\ now <= LastRegister
    /\ pendingMu = Free
    /\ chans' = Put(chans, t, NewChan)
    /\ pendingByBlockId' = Put(pendingByBlockId, hs[t].block,
                               [TransactionID |-> t,
                                ResponseChan |-> t,
                                CreatedAt |-> now])
    /\ hs' = [hs EXCEPT ![t].pc = "wait"]
    /\ UNCHANGED <<pendingMu, rows, now, tickerC, cb, panicked>>

\* SendCallbackResponse without the fallback: a callback that finds no
\* pending request returns false at once.
SendCallbackResponseNoFallback(b, r) ==
    /\ ~panicked
    /\ cb.pc = "idle"
    /\ pendingMu = Free
    /\ pendingMu' = CallbackProc
    /\ cb' = IF b \in DOMAIN pendingByBlockId
             THEN [IdleCallback EXCEPT !.pc = "scr_update", !.block = b, !.resp = r,
                                       !.found = TRUE,
                                       !.txn = pendingByBlockId[b].TransactionID]
             ELSE [IdleCallback EXCEPT !.pc = "scr_ret", !.block = b, !.resp = r]
    /\ UNCHANGED <<pendingByBlockId, chans, rows, now, tickerC, hs, panicked>>

\* SendCallbackResponse(blockId, response): pendingMu.Lock() and the lookup
\* of the pending request.  The lock is held until the function returns.
SendCallbackResponse(b, r) ==
    /\ ~panicked
    /\ cb.pc = "idle"
    /\ pendingMu = Free
    /\ pendingMu' = CallbackProc
    /\ cb' = IF b \in DOMAIN pendingByBlockId
             THEN [IdleCallback EXCEPT !.pc = "scr_update", !.block = b, !.resp = r,
                                       !.found = TRUE,
                                       !.txn = pendingByBlockId[b].TransactionID]
             ELSE [IdleCallback EXCEPT !.pc = "fb_update", !.block = b, !.resp = r]
    /\ UNCHANGED <<pendingByBlockId, chans, rows, now, tickerC, hs, panicked>>

\* SendCallbackResponse that sends without the store write before it.
ScrUpdateSkipped(storeOk) ==
    /\ ~panicked
    /\ cb.pc = "scr_update"
    /\ cb' = [cb EXCEPT !.pc = "scr_send"]
    /\ UNCHANGED <<pendingByBlockId, pendingMu, chans, rows, now, tickerC, hs, panicked>>

\* database.UpdateTransferStatus(req.TransactionID, updates); an error is
\* only printed.
ScrUpdate(storeOk) ==
    /\ ~panicked
    /\ cb.pc = "scr_update"
    /\ LET res == UpdateTransferStatus(rows, cb.txn, CallbackUpdates(cb.resp), storeOk)
       IN /\ rows' = res.rows
          /\ cb' = [cb EXCEPT !.pc = "scr_send", !.err = res.err]
    /\ UNCHANGED <<pendingByBlockId, pendingMu, chans, now, tickerC, hs, panicked>>

\* The select with the delete of the send branch forgotten.
ScrSendNoDelete ==
    /\ ~panicked
    /\ cb.pc = "scr_send"
    /\ LET req == pendingByBlockId[cb.block]
           c == chans[req.ResponseChan]
       IN IF SendPanics(c)
          THEN /\ panicked' = TRUE
               /\ UNCHANGED <<pendingByBlockId, chans, cb>>
          ELSE IF CanSend(c)
          THEN /\ chans' = [chans EXCEPT ![req.ResponseChan] = SendAndClose(c, cb.resp)]
               /\ cb' = [cb EXCEPT !.pc = "scr_ret", !.ret = TRUE]
               /\ UNCHANGED <<pendingByBlockId, panicked>>
          ELSE /\ pendingByBlockId' = Delete(pendingByBlockId, cb.block)
               /\ cb' = [cb EXCEPT !.pc = "scr_ret", !.ret = FALSE]
               /\ UNCHANGED <<chans, panicked>>
    /\ UNCHANGED <<pendingMu, rows, now, tickerC, hs>>

\* select { case req.ResponseChan <- response: close; delete; return true
\*          default: delete; return false }
ScrSend ==
    /\ ~panicked
    /\ cb.pc = "scr_send"
    /\ LET req == pendingByBlockId[cb.block]
           c == chans[req.ResponseChan]
       IN IF SendPanics(c)
          THEN /\ panicked' = TRUE
               /\ UNCHANGED <<pendingByBlockId, chans, cb>>
          ELSE IF CanSend(c)
          THEN /\ chans' = [chans EXCEPT ![req.ResponseChan] = SendAndClose(c, cb.resp)]
               /\ pendingByBlockId' = Delete(pendingByBlockId, cb.block)
               /\ cb' = [cb EXCEPT !.pc = "scr_ret", !.ret = TRUE]
               /\ UNCHANGED panicked
          ELSE /\ pendingByBlockId' = Delete(pendingByBlockId, cb.block)
               /\ cb' = [cb EXCEPT !.pc = "scr_ret", !.ret = FALSE]
               /\ UNCHANGED <<chans, panicked>>
    /\ UNCHANGED <<pendingMu, rows, now, tickerC, hs>>

\* updateStatusByBlockId(blockId, response), still under pendingMu:
\* database.GetTransferStatusByBlockId(blockId), and on error (no row, store
\* error) nothing more; else database.UpdateTransferStatus(status.RequestID,
\* updates), whose error is only printed.  SendCallbackResponse returns false.
updateStatusByBlockId(getOk, updateOk) ==
    /\ ~panicked
    /\ cb.pc = "fb_update"
    /\ LET found == GetTransferStatusByBlockId(rows, cb.block)
       IN IF ~getOk \/ found = {}
          THEN /\ cb' = [cb EXCEPT !.pc = "scr_ret", !.ret = FALSE,
                                   !.err = IF getOk THEN "transfer not found"
                                           ELSE "failed to get transfer status"]
               /\ UNCHANGED rows
          ELSE \E t \in found :
                  LET res == UpdateTransferStatus(rows, t, CallbackUpdates(cb.resp), updateOk)
                  IN /\ rows' = res.rows
                     /\ cb' = [cb EXCEPT !.pc = "scr_ret", !.txn = t, !.ret = FALSE,
                                         !.err = res.err]
    /\ UNCHANGED <<pendingByBlockId, pendingMu, chans, now, tickerC, hs, panicked>>

\* return of SendCallbackResponse and the deferred pendingMu.Unlock()
ScrReturn ==
    /\ ~panicked
    /\ cb.pc = "scr_ret"
    /\ cb' = IdleCallback
    /\ pendingMu' = Free
    /\ UNCHANGED <<pendingByBlockId, chans, rows, now, tickerC, hs, panicked>>

\* The handler receives the delivered value from its channel and returns.
Receive(t) ==
    /\ ~panicked
    /\ hs[t].pc = "wait"
    /\ Len(chans[t].buf) > 0
    /\ chans' = [chans EXCEPT ![t].buf = Tail(@)]
    /\ hs' = [hs EXCEPT ![t] = IdleHandler]
    /\ UNCHANGED <<pendingByBlockId, pendingMu, rows, now, tickerC, cb, panicked>>

\* MarkTimeout(transactionID, blockId), called by the handler when its own
\* deadline elapses (a select on the channel and a timer may take the timer
\* branch whenever the timer has fired) or when it observes its channel
\* closed without a value: database.UpdateTransferStatus with status
\* timeout, outside the lock; on error MarkTimeout returns the error.
MarkTimeoutUpdate(t, storeOk) ==
    /\ ~panicked
    /\ hs[t].pc = "wait"
    /\ LET res == UpdateTransferStatus(rows, t, TimeoutUpdates, storeOk)
       IN /\ rows' = res.rows
          /\ hs' = [hs EXCEPT ![t] = IF res.err = ""
                                     THEN [@ EXCEPT !.pc = "mt_cleanup"]
                                     ELSE IdleHandler]
    /\ UNCHANGED <<pendingByBlockId, pendingMu, chans, now, tickerC, cb, panicked>>

\* MarkTimeoutCleanup with the delete forgotten: the pending request is
\* closed and stays in the registry.
MarkTimeoutCleanupNoDelete(t) ==
    /\ ~panicked
    /\ hs[t].pc = "mt_cleanup"
    /\ pendingMu = Free
    /\ LET b == hs[t].block
       IN IF b \in DOMAIN pendingByBlockId
          THEN LET req == pendingByBlockId[b]
                   c == chans[req.ResponseChan]
               IN IF ClosePanics(c)
                  THEN /\ panicked' = TRUE
                       /\ UNCHANGED <<pendingByBlockId, chans, hs>>
                  ELSE /\ chans' = [chans EXCEPT ![req.ResponseChan] = CloseChan(c)]
                       /\ hs' = [hs EXCEPT ![t] = IdleHandler]
                       /\ UNCHANGED <<pendingByBlockId, panicked>>
          ELSE /\ hs' = [hs EXCEPT ![t] = IdleHandler]
               /\ UNCHANGED <<pendingByBlockId, chans, panicked>>
    /\ UNCHANGED <<pendingMu, rows, now, tickerC, cb>>

\* MarkTimeout: under pendingMu, close and delete the pending request of
\* blockId if there is one; MarkTimeout returns nil.
MarkTimeoutCleanup(t) ==
    /\ ~panicked
    /\ hs[t].pc = "mt_cleanup"
    /\ pendingMu = Free
    /\ LET b == hs[t].block
       IN IF b \in DOMAIN pendingByBlockId
          THEN LET req == pendingByBlockId[b]
                   c == chans[req.ResponseChan]
               IN IF ClosePanics(c)
                  THEN /\ panicked' = TRUE
                       /\ UNCHANGED <<pendingByBlockId, chans, hs>>
                  ELSE /\ chans' = [chans EXCEPT ![req.ResponseChan] = CloseChan(c)]
                       /\ pendingByBlockId' = Delete(pendingByBlockId, b)
                       /\ hs' = [hs EXCEPT ![t] = IdleHandler]
                       /\ UNCHANGED panicked
          ELSE /\ hs' = [hs EXCEPT ![t] = IdleHandler]
               /\ UNCHANGED <<pendingByBlockId, chans, panicked>>
    /\ UNCHANGED <<pendingMu, rows, now, tickerC, cb>>

\* The scan with the comparison one minute late.
StaleLate(pend, tnow) == {b \in DOMAIN pend : tnow - pend[b].CreatedAt > TTL + 1}

\* The pending requests a reaper scan at time tnow finds stale.
Stale(pend, tnow) == {b \in DOMAIN pend : tnow - pend[b].CreatedAt > TTL}

\* The scan that takes a pending request of age TTL for stale.
cleanupStaleRequestsAtTTL ==
    /\ ~panicked
    /\ tickerC
    /\ pendingMu = Free
    /\ tickerC' = FALSE
    /\ LET stale == {b \in DOMAIN pendingByBlockId :
                        now - pendingByBlockId[b].CreatedAt >= TTL}
           closing == {pendingByBlockId[b].ResponseChan : b \in stale}
       IN IF \E i \in closing : ClosePanics(chans[i])
          THEN /\ panicked' = TRUE
               /\ UNCHANGED <<pendingByBlockId, chans>>
          ELSE /\ chans' = [i \in DOMAIN chans |->
                              IF i \in closing THEN CloseChan(chans[i]) ELSE chans[i]]
               /\ pendingByBlockId' = [b \in (DOMAIN pendingByBlockId) \ stale |->
                                          pendingByBlockId[b]]
               /\ UNCHANGED panicked
    /\ UNCHANGED <<pendingMu, rows, now, hs, cb>>

\* cleanupStaleRequests: one iteration of "for range ticker.C", under
\* pendingMu: close and delete every stale pending request.
cleanupStaleRequests ==
    /\ ~panicked
    /\ tickerC
    /\ pendingMu = Free
    /\ tickerC' = FALSE
    /\ LET stale == Stale(pendingByBlockId, now)
           closing == {pendingByBlockId[b].ResponseChan : b \in stale}
       IN IF \E i \in closing : ClosePanics(chans[i])
          THEN /\ panicked' = TRUE
               /\ UNCHANGED <<pendingByBlockId, chans>>
          ELSE /\ chans' = [i \in DOMAIN chans |->
                              IF i \in closing THEN CloseChan(chans[i]) ELSE chans[i]]
               /\ pendingByBlockId' = [b \in (DOMAIN pendingByBlockId) \ stale |->
                                          pendingByBlockId[b]]
               /\ UNCHANGED panicked
    /\ UNCHANGED <<pendingMu, rows, now, hs, cb>>

\* Time passes and the ticker fires (a tick not yet served is dropped by
\* the ticker).  The clock saturates at MaxTime: every pending request was
\* registered by LastRegister, so it is stale at MaxTime and at any later
\* time alike.
Tick ==
    /\ ~panicked
    /\ now' = IF now + ClockStep <= MaxTime THEN now + ClockStep ELSE now
    /\ tickerC' = TRUE
    /\ UNCHANGED <<pendingByBlockId, pendingMu, chans, rows, hs, cb, panicked>>

Next ==
    \/ \E t \in Txns : \E b \in BlocksOf(t), ok \in BOOLEAN : CreateTransfer(t, b, ok)
    \/ \E t \in Txns : RegisterPendingRequest(t)
    \/ \E t \in Txns : Receive(t)
    \/ \E t \in Txns, ok \in BOOLEAN : MarkTimeoutUpdate(t, ok)
    \/ \E t \in Txns : MarkTimeoutCleanup(t)
    \/ \E b \in Blocks, r \in Responses : SendCallbackResponse(b, r)
    \/ \E ok \in BOOLEAN : ScrUpdate(ok)
    \/ ScrSend
    \/ \E getOk \in BOOLEAN, updateOk \in BOOLEAN : updateStatusByBlockId(getOk, updateOk)
    \/ ScrReturn
    \/ cleanupStaleRequests
    \/ Tick

Spec == Init /\ [][Next]_vars

\* Scheduling: every goroutine that can take a step eventually takes it, a
\* goroutine waiting for pendingMu eventually gets it, and time passes.
\* Nothing obliges a request or a callback to arrive, nor a handler's own
\* deadline to elapse.
Fairness ==
    /\ WF_vars(Tick)
    /\ SF_vars(cleanupStaleRequests)
    /\ WF_vars(\E ok \in BOOLEAN : ScrUpdate(ok))
    /\ WF_vars(ScrSend)
    /\ WF_vars(\E getOk \in BOOLEAN, updateOk \in BOOLEAN : updateStatusByBlockId(getOk, updateOk))
    /\ WF_vars(ScrReturn)
    /\ \A t \in Txns : WF_vars(Receive(t))
    /\ \A t \in Txns : SF_vars(RegisterPendingRequest(t))
    /\ \A t \in Txns : SF_vars(MarkTimeoutCleanup(t))

FairSpec == Init /\ [][Next]_vars /\ Fairness

----------------------------------------------------------------------------
\* The clock counted minute by minute, for the ages of pending requests.

\* Registrations happen in the first minutes, in either phase of the ticker
\* and one ticker period apart (a reaper cycle then meets a pending request
\* older than TTL beside one that is not).
LastTimedRegister == 2
\* One minute past the age TTL + ReapPeriod of the last registration.
MaxMinute == LastTimedRegister + TTL + ReapPeriod + 1

\* One minute passes; the ticker fires every ReapPeriod minutes.  The reaper
\* serves a tick within the minute in which it fired: the clock does not
\* advance while a tick is waiting to be served.
TickMinute ==
    /\ ~panicked
    /\ ~tickerC
    /\ now < MaxMinute
    /\ now' = now + 1
    /\ tickerC' = ((now + 1) % ReapPeriod = 0)
    /\ UNCHANGED <<pendingByBlockId, pendingMu, chans, rows, hs, cb, panicked>>

\* RegisterPendingRequest in the first minutes.
TimedRegister(t) ==
    /\ now <= LastTimedRegister
    /\ RegisterPendingRequest(t)

\* The steps of Next, with the minute clock; the callbacks carry one outcome
\* (the outcome of a callback has no bearing on the age of a pending request).
TimedNext ==
    \/ \E t \in Txns : \E b \in BlocksOf(t), ok \in BOOLEAN : CreateTransfer(t, b, ok)
    \/ \E t \in Txns : TimedRegister(t)
    \/ \E t \in Txns : Receive(t)
    \/ \E t \in Txns, ok \in BOOLEAN : MarkTimeoutUpdate(t, ok)
    \/ \E t \in Txns : MarkTimeoutCleanup(t)
    \/ \E b \in Blocks : SendCallbackResponse(b, RespSuccess)
    \/ \E ok \in BOOLEAN : ScrUpdate(ok)
    \/ ScrSend
    \/ \E getOk \in BOOLEAN, updateOk \in BOOLEAN : updateStatusByBlockId(getOk, updateOk)
    \/ ScrReturn
    \/ cleanupStaleRequests
    \/ TickMinute

TimedSpec == Init /\ [][TimedNext]_vars

----------------------------------------------------------------------------
\* The table transfer_status on its own, under any sequence of creates and
\* updates by its callers.

\* The columns an update may supply, and the values supplied for each.
UpdateFields == {"block_id", "status", "message", "error_details"}
FieldValues(f) ==
    CASE f = "block_id" -> Blocks
      [] f = "status" -> {"success", "failed", "timeout"}
      [] f = "message" -> {RespSuccess.Message, MsgTimeout}
      [] f = "error_details" -> {RespFailure.Error}
\* The updates maps: any subset of the columns, each with one of its values.
UpdateMaps ==
    UNION { {u \in [S -> UNION {FieldValues(f) : f \in UpdateFields}] :
                \A f \in S : u[f] \in FieldValues(f)} : S \in SUBSET UpdateFields }

StoreCreate(t, b, storeOk) ==
    /\ rows' = CreateTransferStatus(rows,
                   [RequestID |-> t, BlockId |-> b, Status |-> "pending",
                    Message |-> MsgInitiated, ErrorDetails |-> ""], storeOk).rows
    /\ UNCHANGED <<pendingByBlockId, pendingMu, chans, now, tickerC, hs, cb, panicked>>

StoreUpdate(t, updates, storeOk) ==
    /\ rows' = UpdateTransferStatus(rows, t, updates, storeOk).rows
    /\ UNCHANGED <<pendingByBlockId, pendingMu, chans, now, tickerC, hs, cb, panicked>>

StoreNext ==
    \/ \E t \in Txns, b \in Blocks, ok \in BOOLEAN : StoreCreate(t, b, ok)
    \/ \E t \in Txns, u \in UpdateMaps, ok \in BOOLEAN : StoreUpdate(t, u, ok)

StoreSpec == Init /\ [][StoreNext]_vars

----------------------------------------------------------------------------
\* Claims

\* The pending requests that reference channel i.
Referencing(pend, i) == {b \in DOMAIN pend : pend[b].ResponseChan = i}

\* C1: of deliver, cancel and the reaper scan on one block identifier, at
\* most one removes a given pending request and signals its channel; the
\* others find no pending request and change neither the registry nor any
\* channel.  No channel is signalled by more than one operation, and no
\* operation sends on or closes a closed channel.
C1_OneRemovalWins ==
    [][ /\ ~panicked'
        /\ \A i \in DOMAIN chans' : chans'[i].signals <= 1
        \* a signal goes to the channel of a pending request that the same
        \* step removes
        /\ \A i \in DOMAIN chans :
              chans'[i].signals # chans[i].signals =>
                 /\ Referencing(pendingByBlockId, i) # {}
                 /\ Referencing(pendingByBlockId', i) = {}
        \* cancel without a pending request
        /\ \A t \in Txns :
              (hs[t].pc = "mt_cleanup" /\ hs'[t].pc # "mt_cleanup"
                  /\ hs[t].block \notin DOMAIN pendingByBlockId)
               => UNCHANGED <<pendingByBlockId, chans>>
        \* deliver without a pending request
        /\ (cb' # cb /\ ~cb.found /\ ~cb'.found)
               => UNCHANGED <<pendingByBlockId, chans>>
        \* a reaper scan that finds nothing stale
        /\ (tickerC /\ ~tickerC' /\ Stale(pendingByBlockId, now) = {})
               => UNCHANGED <<pendingByBlockId, chans>>
      ]_vars

\* C1 witness: the pending request of a waiting handler was removed and its
\* channel closed once, by the cancel of the other request or by the
\* reaper, and a deliver for the same block then found no pending request.
C1_Witness ==
    \E t \in Txns :
        /\ hs[t].pc = "wait"
        /\ chans[t].closed /\ chans[t].signals = 1
        /\ chans[t].buf = <<>>
        /\ hs[t].block \notin DOMAIN pendingByBlockId
        /\ cb.pc = "scr_ret" /\ cb.block = hs[t].block /\ ~cb.found /\ ~cb.ret

\* C2: registering a block identifier that already has a pending request
\* leaves that pending request as it is: a pending request in the registry
\* is removed or kept, never replaced.
C2_RegisterKeepsExisting ==
    [][ \A b \in DOMAIN pendingByBlockId :
            b \in DOMAIN pendingByBlockId' => pendingByBlockId'[b] = pendingByBlockId[b]
      ]_vars

\* C3: a handler waiting on the channel it got from RegisterPendingRequest
\* eventually finds the channel signalled (a value or the closure), unless
\* it stops waiting by its own deadline.
C3_WaiterUnblocks ==
    \A t \in Txns :
        (hs[t].pc = "wait") ~> (hs[t].pc # "wait" \/ chans[t].signals > 0)

\* A waiting handler whose channel no pending request references any more
\* and that was never signalled.
Orphaned(t) ==
    /\ hs[t].pc = "wait"
    /\ chans[t].signals = 0
    /\ Referencing(pendingByBlockId, t) = {}

\* Every waiting handler is eventually signalled, stops waiting, or has lost
\* its pending request to a later registration of the same block.
WaiterUnblocksUnlessOrphaned ==
    \A t \in Txns :
        (hs[t].pc = "wait") ~> (hs[t].pc # "wait" \/ chans[t].signals > 0 \/ Orphaned(t))

\* The status a callback response asks for.
Outcome(response) == IF response.Success THEN "success" ELSE "failed"

\* C4: a SendCallbackResponse that finds a pending request for its block
\* takes the send branch: it returns true, the channel of that pending
\* request holds exactly the response, and the registry no longer holds a
\* pending request for the block.
C4_DeliverSucceeds ==
    [][ /\ ~panicked'
        \* while the callback holds the lock the pending request it found stays
        /\ (cb'.pc \in {"scr_update", "scr_send"})
              => /\ cb'.found
                 /\ cb'.block \in DOMAIN pendingByBlockId'
                 /\ pendingByBlockId'[cb'.block].TransactionID = cb'.txn
        \* a callback that starts while the block has a pending request finds it
        /\ (cb.pc = "idle" /\ cb'.pc # "idle")
              => (cb'.found <=> cb'.block \in DOMAIN pendingByBlockId)
        \* the send
        /\ (cb.found /\ cb.pc # "scr_ret" /\ cb'.pc = "scr_ret")
              => /\ cb'.ret
                 /\ chans'[pendingByBlockId[cb.block].ResponseChan].buf = <<cb.resp>>
                 /\ cb.block \notin DOMAIN pendingByBlockId'
        /\ (cb'.pc = "scr_ret" /\ cb'.found) => cb'.ret
      ]_vars

\* C4 witness: register immediately followed by deliver: the callback returns
\* true, the handler's channel holds the response, the registry is empty.
C4_Witness ==
    /\ cb.pc = "scr_ret" /\ cb.found /\ cb.ret
    /\ pendingByBlockId = EmptyMap
    /\ \E t \in Txns : /\ hs[t].pc = "wait" /\ hs[t].block = cb.block
                       /\ chans[t].buf = <<cb.resp>>
    /\ DOMAIN chans = {cb.txn}

\* C5: a SendCallbackResponse that finds no pending request for its block
\* returns false and leaves the registry and the channels as they are; when
\* a row with that block_id exists and the store reports no error, it sets
\* the status of the row the lookup by block_id returned to the outcome of
\* the response.
C5_FallbackUpdates ==
    [][ /\ (cb' # cb /\ ~cb'.found /\ cb'.pc # "idle")
              => UNCHANGED <<pendingByBlockId, chans>>
        /\ (cb.pc # "scr_ret" /\ cb'.pc = "scr_ret" /\ ~cb'.found)
              => /\ ~cb'.ret
                 /\ (GetTransferStatusByBlockId(rows, cb'.block) # {} /\ cb'.err = "")
                       => /\ cb'.txn \in GetTransferStatusByBlockId(rows, cb'.block)
                          /\ rows'[cb'.txn].status = Outcome(cb'.resp)
                          /\ rows'[cb'.txn].block_id = cb'.block
                          /\ rows'[cb'.txn].message = cb'.resp.Message
      ]_vars

\* C5 witness: a callback for a block without pending request, after its
\* handler timed out, has overwritten the row's timeout and returns false.
C5_Witness ==
    /\ cb.pc = "scr_ret" /\ ~cb.found /\ ~cb.ret /\ cb.err = ""
    /\ cb.txn \in DOMAIN rows
    /\ rows[cb.txn].block_id = cb.block
    /\ rows[cb.txn].status = Outcome(cb.resp)
    /\ hs[cb.txn].pc = "idle"
    /\ \E i \in DOMAIN chans : chans[i].closed /\ chans[i].buf = <<>>

\* A step of the callback that writes the store.
CallbackWrite == cb.pc \in {"scr_update", "fb_update"} /\ cb' # cb

\* A step of MarkTimeout of request t that writes the store.
TimeoutWrite(t) == hs[t].pc = "wait" /\ hs'[t].pc # "wait" /\ rows' # rows

\* C6: the status of a row changes only along pending->success,
\* pending->failed, pending->timeout, timeout->success, timeout->failed; in
\* particular a row that reads success or failed is never set to timeout.
C6_StatusTransitions ==
    [][ \A t \in DOMAIN rows :
           /\ rows'[t].status # rows[t].status
                 => <<rows[t].status, rows'[t].status>> \in
                       {<<"pending", "success">>, <<"pending", "failed">>,
                        <<"pending", "timeout">>, <<"timeout", "success">>,
                        <<"timeout", "failed">>}
           /\ rows[t].status \in {"success", "failed"} => rows'[t].status # "timeout"
      ]_vars

\* C7: a callback that writes a row whose status is success or failed
\* leaves the row's status, message and error_details as they are.
C7_TerminalRowKept ==
    [][ CallbackWrite =>
           \A t \in DOMAIN rows :
              rows[t].status \in {"success", "failed"} => rows'[t] = rows[t]
      ]_vars

\* C8: the store write of MarkTimeout(t, b) leaves the row of t with status
\* timeout; and a callback for block b that then writes the store without
\* error, while the row of t reads timeout, sets the row of t to the outcome
\* of the response.
C8_TimeoutThenCallback ==
    [][ /\ \A t \in Txns : TimeoutWrite(t) => rows'[t].status = "timeout"
        /\ \A t \in DOMAIN rows :
              (CallbackWrite /\ cb'.err = "" /\ cb.block = rows[t].block_id
                  /\ rows[t].status = "timeout")
               => rows'[t].status = Outcome(cb.resp)
      ]_vars

\* C9: no two rows with different request_id share a block_id.
C9_BlockIdUnique ==
    \A t1 \in DOMAIN rows : \A t2 \in DOMAIN rows :
        t1 # t2 => rows[t1].block_id # rows[t2].block_id

\* C10: a goroutine that is executing a status-row update does not hold
\* pendingMu.
C10_NoStoreWriteUnderLock ==
    /\ cb.pc \in {"scr_update", "fb_update"} => pendingMu # CallbackProc
    /\ \A t \in Txns : hs[t].pc = "wait" => pendingMu # t

\* A step in which MarkTimeout of request t returns: after its cleanup, or
\* with the error of its store write (the channels are untouched, unlike in
\* a receive).
MarkTimeoutReturns(t) ==
    /\ hs'[t].pc = "idle"
    /\ \/ hs[t].pc = "mt_cleanup"
       \/ hs[t].pc = "wait" /\ chans' = chans

\* C11: when MarkTimeout(t, b) returns, also with a store error, the registry
\* holds no pending request for b, and the channel of the pending request it
\* held for b is closed.
C11_TimeoutAlwaysCancels ==
    [][ \A t \in Txns :
           MarkTimeoutReturns(t) =>
              /\ hs[t].block \notin DOMAIN pendingByBlockId'
              /\ hs[t].block \in DOMAIN pendingByBlockId
                    => chans'[pendingByBlockId[hs[t].block].ResponseChan].closed
      ]_vars

\* C12: on the minute clock, no pending request is in the registry at an age
\* above TTL + ReapPeriod; and a reaper cycle closes, without a value, and
\* removes every pending request that is older than TTL at that cycle.
C12_ReaperBound ==
    [][ /\ \A b \in DOMAIN pendingByBlockId' :
              now' - pendingByBlockId'[b].CreatedAt <= TTL + ReapPeriod
        /\ (tickerC /\ ~tickerC') =>
              \A b \in DOMAIN pendingByBlockId :
                 now - pendingByBlockId[b].CreatedAt > TTL =>
                    /\ b \notin DOMAIN pendingByBlockId'
                    /\ chans'[pendingByBlockId[b].ResponseChan].closed
                    /\ chans'[pendingByBlockId[b].ResponseChan].buf = <<>>
      ]_vars

\* C12 witness: a pending request registered at minute 0 reached the age
\* TTL + ReapPeriod and the reaper cycle of that minute closed and removed it
\* (no row was ever marked timeout, so no MarkTimeout closed the channel).
C12_Witness ==
    /\ now = TTL + ReapPeriod
    /\ ~tickerC
    /\ pendingByBlockId = EmptyMap
    /\ cb.pc = "idle"
    /\ \A t \in DOMAIN rows : rows[t].status = "pending"
    /\ \E t \in Txns : /\ hs[t].pc = "wait"
                       /\ chans[t].closed /\ chans[t].buf = <<>>

\* C13: a SendCallbackResponse that found a pending request updates the row
\* of that pending request's TransactionID: status success or failed by
\* response.Success, message = response.Message, and for a failed outcome
\* error_details = response.Error; no other row changes.  When the store
\* write fails the rows stay as they are, and in either case the response is
\* then sent to the channel of the pending request.
C13_CallbackUpdatesRow ==
    [][ /\ (cb.pc = "scr_update" /\ cb' # cb) =>
              /\ cb'.pc = "scr_send"
              /\ cb.txn = pendingByBlockId[cb.block].TransactionID
              /\ cb'.err = "" =>
                    /\ rows'[cb.txn].status = Outcome(cb.resp)
                    /\ rows'[cb.txn].message = cb.resp.Message
                    /\ ~cb.resp.Success => rows'[cb.txn].error_details = cb.resp.Error
                    /\ \A t \in DOMAIN rows \ {cb.txn} : rows'[t] = rows[t]
              /\ cb'.err # "" => rows' = rows
        /\ (cb.pc = "scr_send" /\ cb' # cb) =>
              /\ cb'.pc = "scr_ret" /\ cb'.ret
              /\ chans'[pendingByBlockId[cb.block].ResponseChan].buf = <<cb.resp>>
      ]_vars

\* C13 witness: the store write of a failed outcome failed, the row still
\* reads pending, and the response was delivered to the waiting handler.
C13_Witness ==
    /\ cb.pc = "scr_ret" /\ cb.found /\ cb.ret
    /\ cb.err # ""
    /\ cb.resp = RespFailure
    /\ rows[cb.txn].status = "pending"
    /\ hs[cb.txn].pc = "wait"
    /\ chans[cb.txn].buf = <<cb.resp>>

\* C14: a row whose error_details is not empty has status failed.
C14_ErrorDetailsOnlyFailed ==
    \A t \in DOMAIN rows :
        rows[t].error_details # "" => rows[t].status = "failed"

\* C15: a CreateTransfer whose request_id already has a row fails and leaves
\* the rows as they are; a CreateTransfer that succeeds had a fresh
\* request_id and adds exactly the row of that request_id, with status
\* pending, changing no other row.  Rows are added by nothing else and are
\* never removed (the table maps each request_id to its one row).
C15_CreateKeepsExisting ==
    [][ /\ DOMAIN rows \subseteq DOMAIN rows'
        /\ \A t \in Txns :
              (hs[t].pc = "idle" /\ hs'[t].pc = "created") =>
                 /\ t \notin DOMAIN rows
                 /\ DOMAIN rows' = DOMAIN rows \cup {t}
                 /\ rows'[t].status = "pending"
                 /\ rows'[t].block_id = hs'[t].block
                 /\ \A u \in DOMAIN rows : rows'[u] = rows[u]
        /\ \A t \in Txns :
              (hs[t].pc = "idle" /\ t \in DOMAIN rows) =>
                 /\ hs'[t].pc = "idle"
                 /\ rows'[t] # rows[t] => cb' # cb
        /\ DOMAIN rows' # DOMAIN rows =>
              \E t \in Txns : hs[t].pc = "idle" /\ hs'[t].pc = "created"
      ]_vars

\* C15 witness: the row of a finished request exists and its handler is idle,
\* so that a CreateTransfer with the same request_id is the next possible
\* step, while the other request's fresh row was added beside it.
C15_Witness ==
    \E t \in Txns, u \in Txns :
        /\ t # u
        /\ hs[t].pc = "idle" /\ t \in DOMAIN rows /\ rows[t].status = "success"
        /\ hs[u].pc = "created" /\ rows[u].status = "pending"

\* C16: UpdateTransferStatus(requestID, updates) on any table and with any
\* updates map sets, in the row of requestID, exactly the supplied columns
\* among block_id, status, message and error_details, and leaves the other
\* columns of that row, every other row and the set of rows as they are;
\* when no row has that request_id it reports "transfer not found" and the
\* table is unchanged.
C16_UpdateFrame ==
    \A t \in Txns, u \in UpdateMaps :
        LET res == UpdateTransferStatus(rows, t, u, TRUE)
        IN IF t \notin DOMAIN rows
           THEN res.err = "transfer not found" /\ res.rows = rows
           ELSE /\ res.err = ""
                /\ DOMAIN res.rows = DOMAIN rows
                /\ \A f \in UpdateFields :
                      res.rows[t][f] = IF f \in DOMAIN u THEN u[f] ELSE rows[t][f]
                /\ \A o \in DOMAIN rows \ {t} : res.rows[o] = rows[o]

\* C16 witness: updates have acted on the row of one request (its block_id
\* was changed, its status and error_details were set, its message is still
\* the one of its creation) beside an untouched row, and an update for a
\* request_id without a row is possible.
C16_Witness ==
    /\ DOMAIN rows = {"T1"}
    /\ rows["T1"] = [block_id |-> "B2", status |-> "failed",
                     message |-> MsgInitiated, error_details |-> "E1"]

\* C17: a SendCallbackResponse for a block that has neither a pending request
\* nor a row with that block_id changes neither the rows nor the registry nor
\* any channel, raises no panic and returns false.
C17_UnknownBlockNoChange ==
    [][ /\ (cb.pc = "idle" /\ cb' # cb /\ ~cb'.found) =>
              /\ cb'.pc = "fb_update"
              /\ UNCHANGED <<rows, pendingByBlockId, chans, panicked>>
        /\ (cb.pc = "fb_update" /\ cb' # cb
               /\ \A t \in DOMAIN rows : rows[t].block_id # cb.block) =>
              /\ cb'.pc = "scr_ret" /\ ~cb'.ret
              /\ UNCHANGED <<rows, pendingByBlockId, chans, panicked>>
        /\ (cb.pc = "scr_ret" /\ cb' # cb) =>
              UNCHANGED <<rows, pendingByBlockId, chans, panicked>>
      ]_vars

\* C17 witness: the callback for block B2 returns false after its lookup
\* found no row, while the row and the pending request of another block are
\* there.
C17_Witness ==
    /\ cb.pc = "scr_ret" /\ ~cb.found /\ ~cb.ret
    /\ cb.block = "B2"
    /\ cb.err = "transfer not found"
    /\ DOMAIN rows # {}
    /\ \A t \in DOMAIN rows : rows[t].block_id = "B1" /\ rows[t].status = "pending"
    /\ DOMAIN pendingByBlockId = {"B1"}

\* C18: the channel of every pending request in the registry is open and
\* empty, never sent to and never closed; and no operation has panicked by
\* closing a closed channel or sending on one.
C18_RegisteredChannelsOpen ==
    /\ ~panicked
    /\ \A b \in DOMAIN pendingByBlockId :
          chans[pendingByBlockId[b].ResponseChan] = NewChan

\* C18 witness: the channel of the first request for a block was signalled
\* and closed; the registry now holds the second request for the same block,
\* with its own open and empty channel, while a callback for it is about to
\* send.
C18_Witness ==
    \E t \in Txns, u \in Txns :
        /\ t # u
        /\ DOMAIN chans = {t, u}
        /\ chans[t].closed /\ chans[t].signals = 1
        /\ hs[u].pc = "wait" /\ hs[u].block = "B1"
        /\ DOMAIN pendingByBlockId = {"B1"}
        /\ pendingByBlockId["B1"].TransactionID = u
        /\ chans[u] = NewChan
        /\ cb.pc = "scr_send"

\* C19: the cleanup of MarkTimeout(t, b) closes the channel of, and removes,
\* only a pending request whose TransactionID is t.
C19_TimeoutOwnRequestOnly ==
    [][ \A t \in Txns :
           (hs[t].pc = "mt_cleanup" /\ hs'[t] # hs[t]) =>
              \A b \in DOMAIN pendingByBlockId :
                 (\/ b \notin DOMAIN pendingByBlockId'
                  \/ chans'[pendingByBlockId[b].ResponseChan]
                        # chans[pendingByBlockId[b].ResponseChan])
                 => pendingByBlockId[b].TransactionID = t
      ]_vars

\* C20: the store write of a callback comes before its send.  When the
\* response is placed in the channel and the store write had succeeded, the
\* row of the transfer no longer reads pending, and for a handler that is
\* still waiting it reads the outcome this callback wrote; a row that left
\* pending never reads pending again.  So a handler never receives the
\* response of a successful store write while its row reads pending.
C20_UpdateBeforeSend ==
    [][ /\ (cb.pc = "scr_send" /\ cb'.pc = "scr_ret" /\ cb'.ret /\ cb.err = "") =>
              /\ chans'[cb.txn].buf = <<cb.resp>>
              /\ rows[cb.txn].status # "pending"
              /\ hs[cb.txn].pc = "wait" => rows[cb.txn].status = Outcome(cb.resp)
        /\ \A t \in DOMAIN rows :
              rows[t].status # "pending" => rows'[t].status # "pending"
        /\ \A t \in Txns :
              (hs[t].pc = "wait" /\ chans[t].buf # <<>> /\ rows[t].status = "pending"
                  /\ cb.pc = "scr_ret" /\ cb.txn = t)
               => cb.err # ""
      ]_vars

\* C20 witness: the callback wrote the outcome to the row of the waiting
\* handler and then placed the response in the handler's channel, which the
\* handler has not yet received.
C20_Witness ==
    /\ cb.pc = "scr_ret" /\ cb.found /\ cb.ret /\ cb.err = ""
    /\ hs[cb.txn].pc = "wait"
    /\ chans[cb.txn].buf = <<cb.resp>>
    /\ rows[cb.txn].status = Outcome(cb.resp)
    /\ cb.resp = RespFailure

\* C21: a step of SendCallbackResponse for block b, and the cleanup of
\* MarkTimeout(_, b), leave every pending request of another block as it is
\* (same TransactionID, same CreatedAt, its channel open and empty); a
\* reaper cycle leaves as it is every pending request whose age is at most
\* TTL.
C21_OnlyOwnTarget ==
    [][ /\ cb' # cb =>
              \A b \in DOMAIN pendingByBlockId :
                 b # (IF cb.pc = "idle" THEN cb'.block ELSE cb.block) =>
                    /\ b \in DOMAIN pendingByBlockId'
                    /\ pendingByBlockId'[b] = pendingByBlockId[b]
                    /\ chans'[pendingByBlockId[b].ResponseChan] = NewChan
        /\ \A t \in Txns :
              (hs[t].pc = "mt_cleanup" /\ hs'[t] # hs[t]) =>
                 \A b \in DOMAIN pendingByBlockId :
                    b # hs[t].block =>
                       /\ b \in DOMAIN pendingByBlockId'
                       /\ pendingByBlockId'[b] = pendingByBlockId[b]
                       /\ chans'[pendingByBlockId[b].ResponseChan] = NewChan
        /\ (tickerC /\ ~tickerC') =>
              \A b \in DOMAIN pendingByBlockId :
                 now - pendingByBlockId[b].CreatedAt <= TTL =>
                    /\ b \in DOMAIN pendingByBlockId'
                    /\ pendingByBlockId'[b] = pendingByBlockId[b]
                    /\ chans'[pendingByBlockId[b].ResponseChan] = NewChan
      ]_vars

\* C21 witness: the reaper cycle of minute TTL + ReapPeriod closed the
\* channel of the request registered at minute 0 (no row was ever marked
\* timeout, so no MarkTimeout closed it) and left the pending request of the
\* other block, of age exactly TTL, in the registry with its channel open.
C21_Witness ==
    /\ now = TTL + ReapPeriod
    /\ ~tickerC
    /\ cb.pc = "idle"
    /\ \A t \in DOMAIN rows : rows[t].status = "pending"
    /\ \E t \in Txns, u \in Txns :
          /\ hs[t].pc = "wait" /\ hs[u].pc = "wait"
          /\ hs[t].block # hs[u].block
          /\ chans[t].closed /\ chans[t].buf = <<>>
          /\ DOMAIN pendingByBlockId = {hs[u].block}
          /\ pendingByBlockId[hs[u].block] =
                [TransactionID |-> u, ResponseChan |-> u, CreatedAt |-> now - TTL]
          /\ chans[u] = NewChan

====
